---- MODULE Spec2Model ----
(***************************************************************************)
(* UDYAM registrations dashboard (src/dashboard.py): the loader            *)
(* load_and_process_data with its per-row Activities parser, the           *)
(* st.cache_data memoization, the filter stages of the script body and     *)
(* the final rendering, as one state machine.  One run of the script is    *)
(* one pass of pc from "load" to "done" (or "stopped" / "crashed");        *)
(* Streamlit reruns the script on every interaction.                       *)
(*                                                                         *)
(* Text is modelled as TLA+ strings; every conversion of the code          *)
(* (str.replace, json.loads, str(), pd.to_numeric, pd.to_datetime,         *)
(* .str[:n], split, strip) is computed character by character.             *)
(***************************************************************************)
EXTENDS Integers, Sequences, FiniteSets, TLC

VARIABLES
    csv_file,               \* the file at file_name: whether it exists, and its data rows
    cache,                  \* st.cache_data's entry for load_and_process_data(file_name)
    loader_runs,            \* how many times the loader body has executed
    first_df,               \* the table the first load produced (history)
    pc,                     \* position of the running script
    df,                     \* line 110
    industry_suggestions,   \* line 110
    name_suggestions,       \* line 110
    pincode_options,        \* line 110
    address_options,        \* line 110
    date_range,             \* line 131
    date_filtered_df,       \* line 141
    state_options,          \* line 152
    selected_state,         \* line 154
    state_filtered_df,      \* lines 162-165
    district_options,       \* line 170
    selected_district,      \* line 172
    district_filter_applied,\* lines 123, 183
    district_filtered_df,   \* lines 180-184
    selected_industry,      \* line 191
    name_options,           \* line 199
    selected_enterprise_name, \* line 200
    selected_pincode,       \* line 208
    filtered_df,            \* lines 218-244
    rendered                \* the elements the run has put on the page

vars == <<csv_file, cache, loader_runs, first_df, pc, df, industry_suggestions,
          name_suggestions, pincode_options, address_options, date_range,
          date_filtered_df, state_options, selected_state, state_filtered_df,
          district_options, selected_district, district_filter_applied,
          district_filtered_df, selected_industry, name_options,
          selected_enterprise_name, selected_pincode, filtered_df, rendered>>

-----------------------------------------------------------------------------
(* Bounds of the model *)

\* the largest number of data rows of a CSV file drawn from FilterPool
MaxRows == 3
\* the largest number of data rows of a CSV file drawn from LoaderPool
MaxLoadRows == 2
\* the largest number of options selected over the three multiselects of one run
MaxSel == 2

-----------------------------------------------------------------------------
(* Python str helpers *)

Char(s, i) == SubSeq(s, i, i)

HasAt(s, i, pat) ==
    /\ i >= 1
    /\ i + Len(pat) - 1 <= Len(s)
    /\ SubSeq(s, i, i + Len(pat) - 1) = pat

\* the least index of lo..hi that satisfies P, hi + 1 when none does
First(lo, hi, P(_)) ==
    CHOOSE k \in lo..(hi + 1) :
        /\ k = hi + 1 \/ P(k)
        /\ \A j \in lo..(k - 1) : ~P(j)

\* s.find(pat, i): the first index >= i where pat occurs, 0 when none
FindFrom(s, i, pat) ==
    LET Here(k) == HasAt(s, k, pat)
        k == First(i, Len(s), Here)
    IN  IF k > Len(s) THEN 0 ELSE k

RECURSIVE ReplaceFrom(_, _, _, _)
ReplaceFrom(s, i, old, new) ==
    IF FindFrom(s, i, old) = 0 THEN SubSeq(s, i, Len(s))
    ELSE SubSeq(s, i, FindFrom(s, i, old) - 1) \o new
         \o ReplaceFrom(s, FindFrom(s, i, old) + Len(old), old, new)

\* s.replace(old, new): every non-overlapping occurrence, left to right
replace(s, old, new) == ReplaceFrom(s, 1, old, new)

\* s.split(sep)[0]: the text before the first sep, all of s when it has none
split_first(s, sep) ==
    LET k == FindFrom(s, 1, sep)
    IN  IF k = 0 THEN s ELSE SubSeq(s, 1, k - 1)

IsWs(c) == c \in {" ", "\t", "\n", "\r"}

\* the first index >= i that holds no whitespace, Len(s) + 1 when none
SkipWs(s, i) ==
    LET Solid(k) == ~IsWs(Char(s, k))
    IN  First(i, Len(s), Solid)

\* the last index that holds no whitespace, 0 when none
LastSolid(s) ==
    LET SolidFromEnd(k) == ~IsWs(Char(s, Len(s) + 1 - k))
    IN  Len(s) + 1 - First(1, Len(s), SolidFromEnd)

\* s.strip()
strip(s) == SubSeq(s, SkipWs(s, 1), LastSolid(s))

\* s[:n]
str_prefix(s, n) == SubSeq(s, 1, IF Len(s) < n THEN Len(s) ELSE n)

DigitChars == {"0", "1", "2", "3", "4", "5", "6", "7", "8", "9"}

IsDigit(c) == c \in DigitChars

DigitVal(c) == CHOOSE d \in 0..9 : Char("0123456789", d + 1) = c

\* the index after the run of digits that starts at i
ScanDigits(s, i) ==
    LET NoDigit(k) == ~IsDigit(Char(s, k))
    IN  First(i, Len(s), NoDigit)

IsDigits(s) == Len(s) > 0 /\ ScanDigits(s, 1) = Len(s) + 1

RECURSIVE StrToNat(_)
\* int(s) of a string of digits
StrToNat(s) ==
    IF Len(s) = 0 THEN 0
    ELSE 10 * StrToNat(SubSeq(s, 1, Len(s) - 1)) + DigitVal(Char(s, Len(s)))

RECURSIVE NatToStr(_)
\* str(n) of an int n >= 0
NatToStr(n) ==
    IF n < 10 THEN Char("0123456789", n + 1)
    ELSE NatToStr(n \div 10) \o Char("0123456789", (n % 10) + 1)

-----------------------------------------------------------------------------
(* json.loads: the JSON grammar of arrays, objects, strings without escapes, *)
(* non-negative integers and the three literals.                             *)

JNull == [t |-> "null"]
JBool(b) == [t |-> "bool", b |-> b]
JNum(n) == [t |-> "number", n |-> n]
JStr(s) == [t |-> "string", s |-> s]
JArr(items) == [t |-> "array", items |-> items]
JObj(members) == [t |-> "object", members |-> members]

JFail == [ok |-> FALSE, v |-> JNull, next |-> 0]
JOk(v, next) == [ok |-> TRUE, v |-> v, next |-> next]

\* the index of the quote closing the string whose text starts at i; 0 when
\* the string is not closed (or holds an escape or a control character)
ScanString(s, i) ==
    LET Ends(k) == Char(s, k) \in {"\"", "\\", "\n", "\r", "\t"}
        k == First(i, Len(s), Ends)
    IN  IF k <= Len(s) /\ Char(s, k) = "\"" THEN k ELSE 0

ParseString(s, i) ==
    LET j == ScanString(s, i + 1)
    IN  IF j = 0 THEN JFail ELSE JOk(JStr(SubSeq(s, i + 1, j - 1)), j + 1)

ParseNumber(s, i) ==
    IF Char(s, i) = "0" THEN JOk(JNum(0), i + 1)
    ELSE LET j == ScanDigits(s, i)
         IN  JOk(JNum(StrToNat(SubSeq(s, i, j - 1))), j)

RECURSIVE ParseValue(_, _)
RECURSIVE ParseItems(_, _, _)
RECURSIVE ParseMembers(_, _, _)

ParseValue(s, i0) ==
    LET i == SkipWs(s, i0)
    IN  IF i > Len(s) THEN JFail
        ELSE LET c == Char(s, i)
             IN  CASE c = "[" ->
                        IF HasAt(s, SkipWs(s, i + 1), "]")
                        THEN JOk(JArr(<<>>), SkipWs(s, i + 1) + 1)
                        ELSE ParseItems(s, i + 1, <<>>)
                   [] c = "{" ->
                        IF HasAt(s, SkipWs(s, i + 1), "}")
                        THEN JOk(JObj(<<>>), SkipWs(s, i + 1) + 1)
                        ELSE ParseMembers(s, i + 1, <<>>)
                   [] c = "\"" -> ParseString(s, i)
                   [] IsDigit(c) -> ParseNumber(s, i)
                   [] HasAt(s, i, "null") -> JOk(JNull, i + 4)
                   [] HasAt(s, i, "true") -> JOk(JBool(TRUE), i + 4)
                   [] HasAt(s, i, "false") -> JOk(JBool(FALSE), i + 5)
                   [] OTHER -> JFail

ParseItems(s, i, acc) ==
    LET r == ParseValue(s, i)
    IN  IF ~r.ok THEN JFail
        ELSE LET j == SkipWs(s, r.next)
             IN  IF HasAt(s, j, ",") THEN ParseItems(s, j + 1, Append(acc, r.v))
                 ELSE IF HasAt(s, j, "]") THEN JOk(JArr(Append(acc, r.v)), j + 1)
                 ELSE JFail

ParseMembers(s, i0, acc) ==
    LET i == SkipWs(s, i0)
    IN  IF ~HasAt(s, i, "\"") THEN JFail
        ELSE LET k == ParseString(s, i)
             IN  IF ~k.ok THEN JFail
                 ELSE LET c == SkipWs(s, k.next)
                      IN  IF ~HasAt(s, c, ":") THEN JFail
                          ELSE LET r == ParseValue(s, c + 1)
                               IN  IF ~r.ok THEN JFail
                                   ELSE LET j == SkipWs(s, r.next)
                                            m == Append(acc, [k |-> k.v.s, v |-> r.v])
                                        IN  IF HasAt(s, j, ",") THEN ParseMembers(s, j + 1, m)
                                            ELSE IF HasAt(s, j, "}") THEN JOk(JObj(m), j + 1)
                                            ELSE JFail

\* the value scanned from the start of s is the document when only
\* whitespace follows it; anything else is json.JSONDecodeError (ok = FALSE)
WholeDocument(s, r) ==
    IF r.ok /\ SkipWs(s, r.next) > Len(s)
    THEN [ok |-> TRUE, v |-> r.v]
    ELSE [ok |-> FALSE, v |-> JNull]

\* json.loads(s)
json_loads(s) == WholeDocument(s, ParseValue(s, 1))

-----------------------------------------------------------------------------
(* parse_activities (lines 53-63) *)

NoExc == "none"

Returned(v) == [exc |-> NoExc, v |-> v]
Raised(e) == [exc |-> e, v |-> JNull]

\* data[0] on a value json.loads returned (line 59): list indexing, dict
\* lookup of the key 0 (a JSON object has string keys only), str indexing;
\* int, bool and None are not subscriptable
subscript0(data) ==
    CASE data.t = "array" ->
            IF Len(data.items) = 0 THEN Raised("IndexError") ELSE Returned(data.items[1])
      [] data.t = "object" -> Raised("KeyError")
      [] data.t = "string" ->
            IF Len(data.s) = 0 THEN Raised("IndexError") ELSE Returned(JStr(Char(data.s, 1)))
      [] OTHER -> Raised("TypeError")

RECURSIVE LastMember(_, _, _, _)
LastMember(members, i, key, default) ==
    IF i = 0 THEN default
    ELSE IF members[i].k = key THEN members[i].v
    ELSE LastMember(members, i - 1, key, default)

\* x.get(key, default) (lines 59-60): only a dict has the method
dict_get(x, key, default) ==
    IF x.t = "object"
    THEN Returned(LastMember(x.members, Len(x.members), key, default))
    ELSE Raised("AttributeError")

\* str(x) of a value json.loads returned (line 60)
py_str(x) ==
    CASE x.t = "string" -> x.s
      [] x.t = "number" -> NatToStr(x.n)
      [] x.t = "null" -> "None"
      [] x.t = "bool" -> IF x.b THEN "True" ELSE "False"

\* the exceptions line 62 catches
CaughtByParser == {"JSONDecodeError", "TypeError", "IndexError"}

ParserSentinel == [exc |-> NoExc, description |-> JStr("Unspecified Activity"), nic_code |-> "00000"]

Propagates(e) == [exc |-> e, description |-> JNull, nic_code |-> ""]

\* the handler of line 62: the sentinel pair for a caught exception, the
\* exception itself for any other
parser_except(e) == IF e \in CaughtByParser THEN ParserSentinel ELSE Propagates(e)

\* line 56
clean_activities(activities_str) ==
    replace(replace(replace(activities_str, "\"\"", "\""), "\"[", "["), "]\"", "]")

\* lines 59-61 once data[0] is at hand: the two .get calls and the return
first_activity(first) ==
    IF first.exc # NoExc THEN parser_except(first.exc)
    ELSE IF first.v.t # "object" THEN parser_except("AttributeError")
    ELSE [exc |-> NoExc,
          description |-> dict_get(first.v, "Description", JStr("Unspecified Activity")).v,
          nic_code |-> py_str(dict_get(first.v, "NIC5DigitId", JStr("00000")).v)]

\* lines 57-63 once json.loads has returned or raised
loaded_activities(data) ==
    IF ~data.ok THEN parser_except("JSONDecodeError")
    ELSE first_activity(subscript0(data.v))

parse_activities(activities_str) ==
    loaded_activities(json_loads(clean_activities(activities_str)))

-----------------------------------------------------------------------------
(* Column conversions of load_and_process_data *)

NaT == 0 - 1

IsLeap(y) == (y % 4 = 0 /\ y % 100 # 0) \/ y % 400 = 0

DaysInMonth(y, m) ==
    IF m = 2 THEN (IF IsLeap(y) THEN 29 ELSE 28)
    ELSE IF m \in {4, 6, 9, 11} THEN 30 ELSE 31

RECURSIVE DaysBeforeMonth(_, _)
DaysBeforeMonth(y, m) == IF m <= 1 THEN 0 ELSE DaysBeforeMonth(y, m - 1) + DaysInMonth(y, m - 1)

\* the proleptic Gregorian ordinal of a date (1 is 0001-01-01)
Ordinal(y, m, d) ==
    (y - 1) * 365 + ((y - 1) \div 4) - ((y - 1) \div 100) + ((y - 1) \div 400)
    + DaysBeforeMonth(y, m) + d

\* pd.to_datetime(s, format='%d/%m/%Y', errors='coerce') (line 47): the day
\* as an ordinal, NaT for a text that is not a date in that format
to_datetime(s) ==
    LET i == FindFrom(s, 1, "/")
        j == IF i = 0 THEN 0 ELSE FindFrom(s, i + 1, "/")
        ds == SubSeq(s, 1, i - 1)
        ms == SubSeq(s, i + 1, j - 1)
        ys == SubSeq(s, j + 1, Len(s))
    IN  IF i = 0 \/ j = 0 THEN NaT
        ELSE IF ~(IsDigits(ds) /\ IsDigits(ms) /\ IsDigits(ys)) THEN NaT
        ELSE IF ~(Len(ds) <= 2 /\ Len(ms) <= 2 /\ Len(ys) = 4) THEN NaT
        ELSE LET d == StrToNat(ds)
                 m == StrToNat(ms)
                 y == StrToNat(ys)
             IN  IF y >= 1 /\ m \in 1..12 /\ d >= 1 /\ d <= DaysInMonth(y, m)
                 THEN Ordinal(y, m, d)
                 ELSE NaT

\* pd.to_numeric(s, errors='coerce').fillna(0).astype(int).astype(str)
\* (line 50) of an unsigned decimal text: the integer part, "0" for a text
\* that is no number
clean_pincode(s) ==
    LET k == ScanDigits(s, 1)
        whole == SubSeq(s, 1, k - 1)
        frac == SubSeq(s, k + 1, Len(s))
    IN  IF k > 1 /\ k = Len(s) + 1 THEN NatToStr(StrToNat(whole))
        ELSE IF k > 1 /\ HasAt(s, k, ".") /\ (Len(frac) = 0 \/ IsDigits(frac))
             THEN NatToStr(StrToNat(whole))
        ELSE "0"

\* s.str[:n].replace('', sentinel) (lines 71, 80): only the empty string is replaced
code_prefix(nic5, n, sentinel) ==
    IF str_prefix(nic5, n) = "" THEN sentinel ELSE str_prefix(nic5, n)

\* NIC_SECTION_MAPPING (lines 19-32)
NIC_SECTION_MAPPING ==
    [c \in {"01", "02", "10", "13", "14", "16", "25", "41", "43", "45", "46",
            "47", "49", "55", "56", "62", "68", "73", "85", "86", "96", "00"} |->
        CASE c = "01" -> "Crop & Animal Production"
          [] c = "02" -> "Forestry and Logging"
          [] c = "10" -> "Manufacture of Food Products"
          [] c = "13" -> "Manufacture of Textiles"
          [] c = "14" -> "Manufacture of Wearing Apparel"
          [] c = "16" -> "Manufacture of Wood & Cork"
          [] c = "25" -> "Manufacture of Metal Products"
          [] c = "41" -> "Construction of Buildings"
          [] c = "43" -> "Specialised Construction"
          [] c = "45" -> "Motor Vehicle Trade/Repair"
          [] c = "46" -> "Wholesale Trade"
          [] c = "47" -> "Retail Trade"
          [] c = "49" -> "Land Transport"
          [] c = "55" -> "Accommodation"
          [] c = "56" -> "Food & Beverage Services"
          [] c = "62" -> "IT & Computer Programming"
          [] c = "68" -> "Real Estate Activities"
          [] c = "73" -> "Advertising & Market Research"
          [] c = "85" -> "Education"
          [] c = "86" -> "Human Health Activities"
          [] c = "96" -> "Other Personal Service Activities"
          [] c = "00" -> "Unspecified Section"]

\* .map(NIC_SECTION_MAPPING).fillna('Other/Unmapped Section') (line 74)
section_desc(section) ==
    IF section \in DOMAIN NIC_SECTION_MAPPING
    THEN NIC_SECTION_MAPPING[section]
    ELSE "Other/Unmapped Section"

-----------------------------------------------------------------------------
(* load_and_process_data (lines 37-107).  A table is the sequence of its     *)
(* rows; a sorted list of distinct values is the set of its elements.        *)

RECURSIVE apply_parse(_)
\* lines 66-68: parse_activities(str(x)) of every row's Activities cell
apply_parse(rows) ==
    IF rows = <<>> THEN <<>>
    ELSE <<parse_activities(Head(rows).Activities)>> \o apply_parse(Tail(rows))

\* the exception a row raises: the one parse_activities let through (line
\* 66), or the TypeError of str + non-str at line 91
row_exc(p) ==
    IF p.exc # NoExc THEN p.exc
    ELSE IF p.description.t # "string" THEN "TypeError"
    ELSE NoExc

RECURSIVE FirstExc(_, _)
\* the first exception among the rows from i on, NoExc when none raises
FirstExc(parsed, i) ==
    IF i > Len(parsed) THEN NoExc
    ELSE IF row_exc(parsed[i]) # NoExc THEN row_exc(parsed[i])
    ELSE FirstExc(parsed, i + 1)

\* lines 71, 74, 77, 80: the columns derived from NIC5DigitId
nic_columns(nic5, section, nic3) ==
    [NIC5DigitId |-> nic5,
     NIC_Section |-> section,
     NIC_Section_Desc |-> section_desc(section),
     NIC_Section_Code_Desc |-> section \o " - " \o section_desc(section),
     NIC3DigitId |-> nic3]

\* lines 47-91 on one row r whose Activities parsed to p
process_row(r, p, nic) ==
    [RegistrationDate |-> to_datetime(r.RegistrationDate),
     Pincode |-> clean_pincode(r.Pincode),
     Activities |-> r.Activities,
     State |-> r.State,
     District |-> r.District,
     EnterpriseName |-> r.EnterpriseName,
     CommunicationAddress |-> r.CommunicationAddress,
     ActivityDescription |-> p.description.s,
     NIC5DigitId |-> nic.NIC5DigitId,
     NIC_Section |-> nic.NIC_Section,
     NIC_Section_Desc |-> nic.NIC_Section_Desc,
     NIC_Section_Code_Desc |-> nic.NIC_Section_Code_Desc,
     NIC3DigitId |-> nic.NIC3DigitId,
     Industry_Suggestion |-> nic.NIC3DigitId \o " - " \o p.description.s]

\* the table of lines 47-84, row by row
process_rows(rows, parsed) ==
    [i \in DOMAIN rows |->
        process_row(rows[i], parsed[i],
                    nic_columns(parsed[i].nic_code,
                                code_prefix(parsed[i].nic_code, 2, "00"),
                                code_prefix(parsed[i].nic_code, 3, "000")))]

HasDate(row) == row.RegistrationDate # NaT

\* line 87
dropna_dates(table) == SelectSeq(table, HasDate)

\* df[col].unique() as a set
Distinct(table, col) == {table[i][col] : i \in DOMAIN table}

\* what the call returns (lines 103, 107) or raises; error: st.error was called
LoaderOutcome(exc, error, table) ==
    [exc |-> exc, error |-> error, df |-> table,
     industry_suggestions |-> Distinct(table, "Industry_Suggestion"),
     name_suggestions |-> Distinct(table, "EnterpriseName"),
     pincode_options |-> Distinct(table, "Pincode"),
     address_options |-> Distinct(table, "CommunicationAddress")]

\* lines 44-103 on the rows read, parsed being their parsed Activities
load_rows(rows, parsed) ==
    IF FirstExc(parsed, 1) # NoExc
    THEN LoaderOutcome(FirstExc(parsed, 1), FALSE, <<>>)
    ELSE LoaderOutcome(NoExc, FALSE, dropna_dates(process_rows(rows, parsed)))

load_and_process_data(file) ==
    IF ~file.exists THEN LoaderOutcome(NoExc, TRUE, <<>>)
    ELSE load_rows(file.rows, apply_parse(file.rows))

\* the cache entry after a call that found none: the value, unless it raised
stored(r) == IF r.exc = NoExc THEN <<r>> ELSE <<>>

\* the call of load_and_process_data when the cache holds no entry
cache_miss(r) == [result |-> r, cache |-> stored(r), ran |-> 1]

\* load_and_process_data without its decorator: the body runs on every call
cached_load_undecorated(c, file) == cache_miss(load_and_process_data(file))

\* @st.cache_data (line 36): the stored value when there is one; otherwise
\* the body runs, and its value is stored unless it raised
cached_load(c, file) ==
    IF c # <<>>
    THEN [result |-> c[1], cache |-> c, ran |-> 0]
    ELSE cache_miss(load_and_process_data(file))

-----------------------------------------------------------------------------
(* The filter stages of the script *)

MinOf(S) == IF S = {} THEN NaT ELSE CHOOSE x \in S : \A y \in S : x <= y

MaxOf(S) == IF S = {} THEN NaT ELSE CHOOSE x \in S : \A y \in S : x >= y

\* the script without the st.stop() of line 113
script_never_stops(table) == FALSE

\* line 112: df.empty
script_stops(table) == table = <<>>

\* the date stage with the end of the range excluded
date_filter_exclusive_end(table, start_date, end_date) ==
    LET Keep(row) == row.RegistrationDate >= start_date /\ row.RegistrationDate < end_date
    IN  SelectSeq(table, Keep)

\* lines 141-144
date_filter(table, start_date, end_date) ==
    LET Keep(row) == row.RegistrationDate >= start_date /\ row.RegistrationDate <= end_date
    IN  SelectSeq(table, Keep)

\* lines 162-165
state_filter(table, state) ==
    LET Keep(row) == row.State = state
    IN  IF state = "All States" THEN table ELSE SelectSeq(table, Keep)

\* lines 180-184
district_filter(table, district) ==
    LET Keep(row) == row.District = district
    IN  IF district = "All Districts" THEN table ELSE SelectSeq(table, Keep)

\* the pincode stage without the test of line 221
pincode_filter_unguarded(table, selected) ==
    LET Keep(row) == row.Pincode \in selected
    IN  SelectSeq(table, Keep)

\* lines 221-222
pincode_filter(table, selected) ==
    LET Keep(row) == row.Pincode \in selected
    IN  IF selected = {} THEN table ELSE SelectSeq(table, Keep)

\* line 227
nic3_codes(selected) == {strip(split_first(item, " - ")) : item \in selected}

\* the industry stage applied to the base table instead of the working set
industry_filter_of_base(table, selected) ==
    LET Keep(row) == row.NIC3DigitId \in nic3_codes(selected)
    IN  IF selected = {} THEN table ELSE SelectSeq(df, Keep)

\* lines 225-228
industry_filter(table, selected) ==
    LET Keep(row) == row.NIC3DigitId \in nic3_codes(selected)
    IN  IF selected = {} THEN table ELSE SelectSeq(table, Keep)

\* lines 232-233
name_filter(table, selected) ==
    LET Keep(row) == row.EnterpriseName \in selected
    IN  IF selected = {} THEN table ELSE SelectSeq(table, Keep)

\* the options the multiselects of lines 191-213 are built with
industry_widget_options == industry_suggestions
name_widget_options == Distinct(district_filtered_df, "EnterpriseName")
pincode_widget_options == pincode_options

-----------------------------------------------------------------------------
(* The input files the model is checked on *)

CsvRow(date, pincode, activities, state, district, name, address) ==
    [RegistrationDate |-> date, Pincode |-> pincode, Activities |-> activities,
     State |-> state, District |-> district, EnterpriseName |-> name,
     CommunicationAddress |-> address]

\* rows that differ in date, geography, pincode, name and industry
FilterPool == <<
    CsvRow("01/01/2023", "411001", "[{\"Description\":\"Bakery\",\"NIC5DigitId\":\"10710\"}]",
           "Maharashtra", "Pune", "Asha Foods", "MG Road"),
    CsvRow("15/01/2023", "411002.0", "\"[{\"\"Description\"\":\"\"Retail\"\",\"\"NIC5DigitId\"\":\"\"47110\"\"}]\"",
           "Maharashtra", "Pune", "Bharat Traders", "FC Road"),
    CsvRow("31/01/2023", "440001", "[{\"Description\":\"Bread\",\"NIC5DigitId\":\"10712\"}]",
           "Maharashtra", "Nagpur", "Asha Foods", "Sitabuldi"),
    CsvRow("01/02/2023", "796001", "[{\"Description\":\"Bakery\",\"NIC5DigitId\":\"10710\"}]",
           "Mizoram", "Aizawl", "City Bakers", "Zarkawt"),
    CsvRow("31/02/2023", "796001", "[{\"Description\":\"Retail\",\"NIC5DigitId\":\"47110\"}]",
           "Mizoram", "Aizawl", "No Date Stores", "Zarkawt"),
    CsvRow("15/01/2023", "n/a", "",
           "Mizoram", "Lunglei", "", "")
>>

LoaderRow(activities) ==
    CsvRow("15/01/2023", "796001", activities, "Mizoram", "Aizawl", "Zo Traders", "Zarkawt")

\* rows that differ in the Activities payload only
LoaderPool == <<
    LoaderRow("\"[{\"\"Description\"\":\"\"Bakery\"\",\"\"NIC5DigitId\"\":\"\"10710\"\"}]\""),
    LoaderRow("[{\"Description\":\"Tea\",\"NIC5DigitId\":\"10791\"},{\"Description\":\"Retail\",\"NIC5DigitId\":\"47110\"}]"),
    LoaderRow("[{\"NIC5DigitId\":99000}]"),
    LoaderRow("[{\"Description\":\"Short\",\"NIC5DigitId\":\"1\"}]"),
    LoaderRow("\"[{\"\"Description\"\":\"\"Blank\"\",\"\"NIC5DigitId\"\":\"\"\"\"}]\""),
    LoaderRow("[{\"Description\":\"Padded\",\"NIC5DigitId\":\" 10710\"}]"),
    LoaderRow(""),
    LoaderRow("nan"),
    LoaderRow("[]"),
    LoaderRow("5"),
    LoaderRow("{\"Description\":\"Bakery\",\"NIC5DigitId\":\"10710\"}"),
    LoaderRow("[5]"),
    LoaderRow("\"Bakery\"")
>>

RECURSIVE Pick(_, _, _)
\* the rows of pool at the indexes S, in pool order
Pick(pool, S, i) ==
    IF i > Len(pool) THEN <<>>
    ELSE (IF i \in S THEN <<pool[i]>> ELSE <<>>) \o Pick(pool, S, i + 1)

MissingFile == [exists |-> FALSE, rows |-> <<>>]

\* the files of 1 to n rows of a pool
Files(pool, n) ==
    {[exists |-> TRUE, rows |-> Pick(pool, S, 1)] :
        S \in {X \in SUBSET (1..Len(pool)) : Cardinality(X) \in 1..n}}

InputFiles == {MissingFile} \cup Files(FilterPool, MaxRows) \cup Files(LoaderPool, MaxLoadRows)

\* the days, besides the two ends, the slider is moved to
SliderProbes == {to_datetime("31/01/2023")}

SmallSubsets(S, n) == {X \in SUBSET S : Cardinality(X) <= n}

-----------------------------------------------------------------------------
(* The script *)

\* a fresh run of the script: nothing computed, nothing on the page
FreshRun ==
    /\ pc' = "load"
    /\ df' = <<>>
    /\ industry_suggestions' = {}
    /\ name_suggestions' = {}
    /\ pincode_options' = {}
    /\ address_options' = {}
    /\ date_range' = <<NaT, NaT>>
    /\ date_filtered_df' = <<>>
    /\ state_options' = {}
    /\ selected_state' = ""
    /\ state_filtered_df' = <<>>
    /\ district_options' = {}
    /\ selected_district' = ""
    /\ district_filter_applied' = FALSE
    /\ district_filtered_df' = <<>>
    /\ selected_industry' = {}
    /\ name_options' = {}
    /\ selected_enterprise_name' = {}
    /\ selected_pincode' = {}
    /\ filtered_df' = <<>>
    /\ rendered' = {}

Init ==
    /\ csv_file \in InputFiles
    /\ cache = <<>>
    /\ loader_runs = 0
    /\ first_df = <<>>
    /\ pc = "load"
    /\ df = <<>>
    /\ industry_suggestions = {}
    /\ name_suggestions = {}
    /\ pincode_options = {}
    /\ address_options = {}
    /\ date_range = <<NaT, NaT>>
    /\ date_filtered_df = <<>>
    /\ state_options = {}
    /\ selected_state = ""
    /\ state_filtered_df = <<>>
    /\ district_options = {}
    /\ selected_district = ""
    /\ district_filter_applied = FALSE
    /\ district_filtered_df = <<>>
    /\ selected_industry = {}
    /\ name_options = {}
    /\ selected_enterprise_name = {}
    /\ selected_pincode = {}
    /\ filtered_df = <<>>
    /\ rendered = {}

\* lines 110-118 once the cached call has returned or raised: the stop on
\* an empty table, the title
LoadWith(call) ==
    /\ cache' = call.cache
    /\ loader_runs' = loader_runs + call.ran
    /\ first_df' = IF first_df = <<>> /\ call.result.exc = NoExc
                   THEN <<call.result.df>> ELSE first_df
    /\ df' = call.result.df
    /\ industry_suggestions' = call.result.industry_suggestions
    /\ name_suggestions' = call.result.name_suggestions
    /\ pincode_options' = call.result.pincode_options
    /\ address_options' = call.result.address_options
    /\ pc' = IF call.result.exc # NoExc THEN "crashed"
             ELSE IF script_stops(call.result.df) THEN "stopped"
             ELSE "time"
    /\ rendered' = IF call.result.exc # NoExc THEN {"exception"}
                   ELSE (IF call.result.error THEN {"error"} ELSE {})
                        \cup (IF script_stops(call.result.df) THEN {} ELSE {"title"})

\* lines 110-118: the cached load, the stop on an empty table, the title
LoadStep ==
    /\ pc = "load"
    /\ LoadWith(cached_load(cache, csv_file))
    /\ UNCHANGED <<csv_file, date_range, date_filtered_df, state_options, selected_state,
                   state_filtered_df, district_options, selected_district,
                   district_filter_applied, district_filtered_df, selected_industry,
                   name_options, selected_enterprise_name, selected_pincode, filtered_df>>

\* lines 129-144: the date slider and the date stage
DateStage ==
    /\ pc = "time"
    /\ LET min_date == MinOf(Distinct(df, "RegistrationDate"))
           max_date == MaxOf(Distinct(df, "RegistrationDate"))
           stops == {min_date, max_date} \cup (SliderProbes \cap (min_date..max_date))
       IN  \E start_date \in stops, end_date \in stops :
              /\ start_date <= end_date
              /\ date_range' = <<start_date, end_date>>
              /\ date_filtered_df' = date_filter(df, start_date, end_date)
    /\ rendered' = rendered \cup {"date_slider"}
    /\ pc' = "state"
    /\ UNCHANGED <<csv_file, cache, loader_runs, first_df, df, industry_suggestions,
                   name_suggestions, pincode_options, address_options, state_options,
                   selected_state, state_filtered_df, district_options, selected_district,
                   district_filter_applied, district_filtered_df, selected_industry,
                   name_options, selected_enterprise_name, selected_pincode, filtered_df>>

\* lines 151-165: the state selectbox and the state stage
StateStage ==
    /\ pc = "state"
    /\ state_options' = {"All States"} \cup Distinct(date_filtered_df, "State")
    /\ \E choice \in state_options' :
          /\ selected_state' = choice
          /\ state_filtered_df' = state_filter(date_filtered_df, choice)
    /\ rendered' = rendered \cup {"state_select"}
    /\ pc' = "district"
    /\ UNCHANGED <<csv_file, cache, loader_runs, first_df, df, industry_suggestions,
                   name_suggestions, pincode_options, address_options, date_range,
                   date_filtered_df, district_options, selected_district,
                   district_filter_applied, district_filtered_df, selected_industry,
                   name_options, selected_enterprise_name, selected_pincode, filtered_df>>

\* lines 169-184: the district selectbox and the district stage
DistrictStage ==
    /\ pc = "district"
    /\ district_options' = {"All Districts"} \cup Distinct(state_filtered_df, "District")
    /\ \E choice \in district_options' :
          /\ selected_district' = choice
          /\ district_filter_applied' = (choice # "All Districts")
          /\ district_filtered_df' = district_filter(state_filtered_df, choice)
    /\ rendered' = rendered \cup {"district_select"}
    /\ pc' = "industry"
    /\ UNCHANGED <<csv_file, cache, loader_runs, first_df, df, industry_suggestions,
                   name_suggestions, pincode_options, address_options, date_range,
                   date_filtered_df, state_options, selected_state, state_filtered_df,
                   selected_industry, name_options, selected_enterprise_name,
                   selected_pincode, filtered_df>>

\* lines 191-196: the industry multiselect
IndustrySelect ==
    /\ pc = "industry"
    /\ selected_industry' \in SmallSubsets(industry_widget_options, MaxSel)
    /\ rendered' = rendered \cup {"industry_multiselect"}
    /\ pc' = "name"
    /\ UNCHANGED <<csv_file, cache, loader_runs, first_df, df, industry_suggestions,
                   name_suggestions, pincode_options, address_options, date_range,
                   date_filtered_df, state_options, selected_state, state_filtered_df,
                   district_options, selected_district, district_filter_applied,
                   district_filtered_df, name_options, selected_enterprise_name,
                   selected_pincode, filtered_df>>

\* lines 199-205: the enterprise name multiselect
NameSelect ==
    /\ pc = "name"
    /\ name_options' = name_widget_options
    /\ selected_enterprise_name' \in
          SmallSubsets(name_options', MaxSel - Cardinality(selected_industry))
    /\ rendered' = rendered \cup {"name_multiselect"}
    /\ pc' = "pincode"
    /\ UNCHANGED <<csv_file, cache, loader_runs, first_df, df, industry_suggestions,
                   name_suggestions, pincode_options, address_options, date_range,
                   date_filtered_df, state_options, selected_state, state_filtered_df,
                   district_options, selected_district, district_filter_applied,
                   district_filtered_df, selected_industry, selected_pincode, filtered_df>>

\* lines 208-213: the pincode multiselect
PincodeSelect ==
    /\ pc = "pincode"
    /\ selected_pincode' \in
          SmallSubsets(pincode_widget_options,
                       MaxSel - Cardinality(selected_industry)
                              - Cardinality(selected_enterprise_name))
    /\ rendered' = rendered \cup {"pincode_multiselect"}
    /\ pc' = "f_pincode"
    /\ UNCHANGED <<csv_file, cache, loader_runs, first_df, df, industry_suggestions,
                   name_suggestions, pincode_options, address_options, date_range,
                   date_filtered_df, state_options, selected_state, state_filtered_df,
                   district_options, selected_district, district_filter_applied,
                   district_filtered_df, selected_industry, name_options,
                   selected_enterprise_name, filtered_df>>

RunFrame ==
    UNCHANGED <<csv_file, cache, loader_runs, first_df, df, industry_suggestions,
                name_suggestions, pincode_options, address_options, date_range,
                date_filtered_df, state_options, selected_state, state_filtered_df,
                district_options, selected_district, district_filter_applied,
                district_filtered_df, selected_industry, name_options,
                selected_enterprise_name, selected_pincode>>

\* lines 218-222: the copy of the geography result and the pincode stage
PincodeFilter ==
    /\ pc = "f_pincode"
    /\ filtered_df' = pincode_filter(district_filtered_df, selected_pincode)
    /\ pc' = "f_industry"
    /\ UNCHANGED rendered
    /\ RunFrame

\* lines 225-228: the industry stage
IndustryFilter ==
    /\ pc = "f_industry"
    /\ filtered_df' = industry_filter(filtered_df, selected_industry)
    /\ pc' = "f_name"
    /\ UNCHANGED rendered
    /\ RunFrame

\* lines 232-233: the enterprise name stage
NameFilter ==
    /\ pc = "f_name"
    /\ filtered_df' = name_filter(filtered_df, selected_enterprise_name)
    /\ pc' = "render"
    /\ UNCHANGED rendered
    /\ RunFrame

\* lines 237-374: the warning, or the KPIs, the charts and the data preview
Render ==
    /\ pc = "render"
    /\ rendered' = rendered \cup
          (IF filtered_df = <<>> THEN {"warning"}
           ELSE {"kpis", "trend_chart", "nic_chart", "activity_chart", "data_preview"}
                \cup (IF district_filter_applied THEN {} ELSE {"district_chart"}))
    /\ pc' = "done"
    /\ UNCHANGED filtered_df
    /\ RunFrame

\* a change of a filter control: Streamlit runs the script again from the top
Rerun ==
    /\ pc = "done"
    /\ FreshRun
    /\ UNCHANGED <<csv_file, cache, loader_runs, first_df>>

\* the environment: the file at file_name is removed between two runs
RemoveFile ==
    /\ pc = "done"
    /\ csv_file.exists
    /\ csv_file' = MissingFile
    /\ UNCHANGED <<cache, loader_runs, first_df, pc, df, industry_suggestions,
                   name_suggestions, pincode_options, address_options, date_range,
                   date_filtered_df, state_options, selected_state, state_filtered_df,
                   district_options, selected_district, district_filter_applied,
                   district_filtered_df, selected_industry, name_options,
                   selected_enterprise_name, selected_pincode, filtered_df, rendered>>

Next ==
    \/ LoadStep
    \/ DateStage
    \/ StateStage
    \/ DistrictStage
    \/ IndustrySelect
    \/ NameSelect
    \/ PincodeSelect
    \/ PincodeFilter
    \/ IndustryFilter
    \/ NameFilter
    \/ Render
    \/ Rerun
    \/ RemoveFile

Spec == Init /\ [][Next]_vars

-----------------------------------------------------------------------------
(* Properties *)

RECURSIVE IsSubSeq(_, _)
\* a keeps some of the rows of b, in b's order
IsSubSeq(a, b) ==
    IF a = <<>> THEN TRUE
    ELSE IF b = <<>> THEN FALSE
    ELSE IF Head(a) = Head(b) THEN IsSubSeq(Tail(a), Tail(b))
    ELSE IsSubSeq(a, Tail(b))

Rows(table) == {table[i] : i \in DOMAIN table}

IsPrefix(a, b) == Len(a) <= Len(b) /\ SubSeq(b, 1, Len(a)) = a

Day(text) == to_datetime(text)

\* C1: every stage's options are the distinct values of its upstream stage's
\* output: the state options of the date-filtered set, the district options of
\* the state-filtered set, the pincode options exactly the pincodes of the
\* district-filtered set, and no offered industry or name option is absent
\* from the district-filtered set its stage works on.
C1_OptionsFromUpstream ==
    /\ "state_select" \in rendered =>
          state_options = {"All States"} \cup Distinct(date_filtered_df, "State")
    /\ "district_select" \in rendered =>
          district_options = {"All Districts"} \cup Distinct(state_filtered_df, "District")
    /\ "pincode_multiselect" \in rendered =>
          pincode_widget_options = Distinct(district_filtered_df, "Pincode")
    /\ "industry_multiselect" \in rendered =>
          industry_widget_options \subseteq Distinct(district_filtered_df, "Industry_Suggestion")
    /\ "name_multiselect" \in rendered =>
          name_options \subseteq Distinct(district_filtered_df, "EnterpriseName")

\* C2: parse_activities never raises: no run of load_and_process_data is
\* aborted by an exception from a row's Activities payload.
C2_ParserNeverRaises == pc # "crashed"

\* C3: with a non-empty industry selection the industry stage keeps exactly
\* the rows of its input whose NIC3DigitId is the code a selected label was
\* built from.
C3_IndustryKeepsLabelCodes ==
    [][(pc = "f_industry" /\ selected_industry # {}) =>
          LET codes == {df[i].NIC3DigitId :
                          i \in {k \in DOMAIN df : df[k].Industry_Suggestion \in selected_industry}}
              Keep(row) == row.NIC3DigitId \in codes
          IN  filtered_df' = SelectSeq(filtered_df, Keep)]_vars

\* C4: the "All States" and "All Districts" sentinels and an empty pincode,
\* industry or name selection leave the stage's input unchanged.
C4_PassThrough ==
    [][/\ (pc = "state" /\ selected_state' = "All States") =>
              state_filtered_df' = date_filtered_df
       /\ (pc = "district" /\ selected_district' = "All Districts") =>
              district_filtered_df' = state_filtered_df
       /\ (pc = "f_pincode" /\ selected_pincode = {}) =>
              filtered_df' = district_filtered_df
       /\ (pc = "f_industry" /\ selected_industry = {}) =>
              filtered_df' = filtered_df
       /\ (pc = "f_name" /\ selected_enterprise_name = {}) =>
              filtered_df' = filtered_df]_vars

\* a run in which every stage after the date stage passed its input through
C4_Witness ==
    /\ pc = "render"
    /\ selected_state = "All States"
    /\ selected_district = "All Districts"
    /\ selected_pincode = {}
    /\ selected_industry = {}
    /\ selected_enterprise_name = {}
    /\ Len(date_filtered_df) >= 2
    /\ Len(date_filtered_df) < Len(df)
    /\ filtered_df = date_filtered_df

\* C5: the output of each of the six stages keeps rows of its input only, so
\* no stage raises the row count and the final set is part of the base table.
C5_StagesNarrow ==
    [][/\ pc = "time" => IsSubSeq(date_filtered_df', df)
       /\ pc = "state" => IsSubSeq(state_filtered_df', date_filtered_df)
       /\ pc = "district" => IsSubSeq(district_filtered_df', state_filtered_df)
       /\ pc = "f_pincode" => IsSubSeq(filtered_df', district_filtered_df)
       /\ pc = "f_industry" => IsSubSeq(filtered_df', filtered_df)
       /\ pc = "f_name" =>
              /\ IsSubSeq(filtered_df', filtered_df)
              /\ IsSubSeq(filtered_df', df)
              /\ Len(filtered_df') <= Len(filtered_df)
              /\ Len(filtered_df) <= Len(district_filtered_df)
              /\ Len(district_filtered_df) <= Len(state_filtered_df)
              /\ Len(state_filtered_df) <= Len(date_filtered_df)
              /\ Len(date_filtered_df) <= Len(df)]_vars

\* a run in which the geography stages and the industry stage each dropped rows
C5_Witness ==
    /\ pc = "render"
    /\ selected_industry # {}
    /\ filtered_df # <<>>
    /\ Len(filtered_df) < Len(district_filtered_df)
    /\ Len(district_filtered_df) < Len(df)

\* C6: when the loader found no file at the path it reported the error and
\* returned an empty table with four empty lists, and the script stopped with
\* nothing but the error on the page.
C6_MissingFileHalts ==
    (cache # <<>> /\ cache[1].error /\ pc # "load") =>
        /\ df = <<>>
        /\ industry_suggestions = {}
        /\ name_suggestions = {}
        /\ pincode_options = {}
        /\ address_options = {}
        /\ pc = "stopped"
        /\ rendered = {"error"}

\* the script stopped on a path that does not resolve
C6_Witness ==
    /\ ~csv_file.exists
    /\ loader_runs = 1
    /\ pc = "stopped"
    /\ rendered = {"error"}

SectionDescOk(row) ==
    IF row.NIC_Section \in DOMAIN NIC_SECTION_MAPPING
    THEN row.NIC_Section_Desc = NIC_SECTION_MAPPING[row.NIC_Section]
    ELSE row.NIC_Section_Desc = "Other/Unmapped Section"

\* C7: in every record of the loaded table NIC_Section and
\* NIC3DigitId are prefixes of NIC5DigitId, and NIC_Section_Desc is the
\* mapping's entry for NIC_Section or the default.
C7_CodesArePrefixes ==
    \A row \in Rows(df) :
        /\ IsPrefix(row.NIC_Section, row.NIC5DigitId)
        /\ IsPrefix(row.NIC3DigitId, row.NIC5DigitId)
        /\ SectionDescOk(row)

\* C8: in every record of the loaded table NIC5DigitId is a string of exactly
\* 5 digits, NIC_Section one of exactly 2 digits and NIC3DigitId one of
\* exactly 3 digits.
C8_FixedWidthCodes ==
    \A row \in Rows(df) :
        /\ Len(row.NIC5DigitId) = 5 /\ IsDigits(row.NIC5DigitId)
        /\ Len(row.NIC_Section) = 2 /\ IsDigits(row.NIC_Section)
        /\ Len(row.NIC3DigitId) = 3 /\ IsDigits(row.NIC3DigitId)

\* C9: the loader body runs once at most, and every run that got past the
\* load reads the table the first load produced, whatever the stages of that
\* run and of the runs before it did.
C9_LoadedOnce ==
    /\ loader_runs <= 1
    /\ pc \notin {"load", "crashed"} =>
          /\ first_df = <<df>>
          /\ cache # <<>>
          /\ cache[1].df = df

\* a later run, started after the file was removed, reads the first table
C9_Witness ==
    /\ pc = "render"
    /\ ~csv_file.exists
    /\ loader_runs = 1
    /\ df # <<>>
    /\ Len(filtered_df) < Len(df)

InRange(row) ==
    row.RegistrationDate >= date_range[1] /\ row.RegistrationDate <= date_range[2]

\* C10: the date stage keeps a record exactly when start <= RegistrationDate
\* <= end, both ends included, and with the slider at its default (the least
\* and the greatest date of the base table) it keeps the whole base table.
C10_InclusiveDateRange ==
    "date_slider" \in rendered =>
        /\ Rows(date_filtered_df) = {row \in Rows(df) : InRange(row)}
        /\ Len(date_filtered_df) = Cardinality({i \in DOMAIN df : InRange(df[i])})
        /\ (/\ date_range[1] = MinOf(Distinct(df, "RegistrationDate"))
            /\ date_range[2] = MaxOf(Distinct(df, "RegistrationDate")))
              => date_filtered_df = df

\* the range [2023-01-01, 2023-01-31] on a table with records of
\* 2023-01-01, 2023-01-15 and 2023-02-01: the first two are kept
C10_Witness ==
    /\ "date_slider" \in rendered
    /\ date_range = <<Day("01/01/2023"), Day("31/01/2023")>>
    /\ Distinct(df, "RegistrationDate") =
          {Day("01/01/2023"), Day("15/01/2023"), Day("01/02/2023")}
    /\ Distinct(date_filtered_df, "RegistrationDate") =
          {Day("01/01/2023"), Day("15/01/2023")}

====
